---- MODULE Spec2Model ----
(***************************************************************************)
(* Model of the Tensor type of delta/src/common/tensor_ops.rs.             *)
(*                                                                         *)
(* A Tensor wraps an ndarray ArrayD<f32>: an owned element vector together *)
(* with a shape and one stride per axis.  The element at index             *)
(* (i_1,...,i_n) is stored at position sum(i_k * strides[k]) of the        *)
(* vector.  Arrays built by Tensor::new are in standard (row-major)        *)
(* layout; permuted_axes permutes shape and strides and leaves the vector  *)
(* alone, so transposed tensors are not in standard layout.                *)
(*                                                                         *)
(* f32 elements are modelled by integers of small magnitude, which f32     *)
(* represents and adds/subtracts exactly.                                  *)
(***************************************************************************)
EXTENDS Integers, Sequences, FiniteSets, TLC

\* ------------------------------------------------------------------ bounds
\* rank, extent and element count of the tensors built, tensors per stack
MaxRank == 3
MaxExtent == 3
MaxElems == 6
MaxStack == 2

\* ------------------------------------------------------- sequence helpers
RECURSIVE Product(_)
Product(s) == IF s = <<>> THEN 1 ELSE Head(s) * Product(Tail(s))

RECURSIVE SumSeq(_)
SumSeq(s) == IF s = <<>> THEN 0 ELSE Head(s) + SumSeq(Tail(s))

Reverse(s) == [i \in 1..Len(s) |-> s[Len(s) + 1 - i]]

Dot(idx, strides) == SumSeq([k \in 1..Len(idx) |-> idx[k] * strides[k]])

\* product of the extents after axis k (1-based)
RECURSIVE SuffixProduct(_, _)
SuffixProduct(shape, k) ==
    IF k >= Len(shape) THEN 1 ELSE shape[k + 1] * SuffixProduct(shape, k + 1)

\* the n-th index (n from 0) of a shape in row-major (last axis fastest) order
Unravel(shape, n) ==
    [k \in 1..Len(shape) |-> (n \div SuffixProduct(shape, k)) % shape[k]]

\* ------------------------------------------------- ndarray layout helpers
\* Dimension::default_strides: row-major strides, all zero for an empty array
default_strides(shape) ==
    IF \E k \in 1..Len(shape) : shape[k] = 0
    THEN [k \in 1..Len(shape) |-> 0]
    ELSE [k \in 1..Len(shape) |-> SuffixProduct(shape, k)]

\* Dimension::fortran_strides: column-major strides
fortran_strides(shape) == Reverse(default_strides(Reverse(shape)))

\* dimension::is_layout_c: axes of extent 1 may carry any stride
RECURSIVE LayoutCFrom(_, _, _, _)
LayoutCFrom(shape, strides, k, contig) ==
    IF k = 0 THEN TRUE
    ELSE IF shape[k] # 1 /\ strides[k] # contig THEN FALSE
    ELSE LayoutCFrom(shape, strides, k - 1,
                     IF shape[k] # 1 THEN contig * shape[k] ELSE contig)

is_layout_c(shape, strides) ==
    \/ \E k \in 1..Len(shape) : shape[k] = 0
    \/ LayoutCFrom(shape, strides, Len(shape), 1)

is_layout_f(shape, strides) == is_layout_c(Reverse(shape), Reverse(strides))

is_standard_layout(t) == is_layout_c(t.shape, t.strides)

\* ------------------------------------------------------------ the tensor
\* data: the owned Vec<f32>; shape, strides: ArrayD's dim and strides
Tensor(shape, strides, data) ==
    [shape |-> shape, strides |-> strides, data |-> data]

ndim(t) == Len(t.shape)

\* ArrayBase::len: the number of elements the shape describes
len(t) == Product(t.shape)

\* the element at a (0-based) index
At(t, idx) == t.data[1 + Dot(idx, t.strides)]

\* ArrayBase::iter: the elements in logical (row-major index) order
iter(t) == [n \in 1..len(t) |-> At(t, Unravel(t.shape, n - 1))]

\* Tensor::shape
shape(t) == t.shape

Ok(ts) == [outcome |-> "ok", res |-> ts]
Panic == [outcome |-> "panic", res |-> <<>>]
Err == [outcome |-> "err", res |-> <<>>]

\* new, were a buffer longer than the shape needs cut to size
new_truncating(data, shp) ==
    IF Len(data) < Product(shp) THEN Panic
    ELSE Ok(<<Tensor(shp, default_strides(shp), SubSeq(data, 1, Product(shp)))>>)

\* Array::from_shape_vec (an Err is turned into a panic by expect)
new(data, shp) ==
    IF Len(data) # Product(shp) THEN Panic
    ELSE Ok(<<Tensor(shp, default_strides(shp), data)>>)

\* Array::zeros
zeros(shp) ==
    Ok(<<Tensor(shp, default_strides(shp), [n \in 1..Product(shp) |-> 0])>>)

\* Tensor::random: data holds the shape.size() samples drawn
random(data, shp) == Ok(<<Tensor(shp, default_strides(shp), data)>>)

\* ArrayBase::into_shape_with_order, row-major order
into_shape_with_order(t, shp) ==
    IF Product(shp) # len(t) THEN Panic
    ELSE IF ~is_standard_layout(t) THEN Panic
    ELSE Ok(<<Tensor(shp, default_strides(shp), t.data)>>)

reshape(t, shp) == into_shape_with_order(t, shp)

flatten(t) == into_shape_with_order(t, <<len(t)>>)

\* ArrayBase::permuted_axes: axes (0-based) must be a permutation of 0..ndim
IsPermutation(axes, n) ==
    /\ Len(axes) = n
    /\ \A k \in 0..(n - 1) : Cardinality({j \in 1..n : axes[j] = k}) = 1

permuted_axes(t, axes) ==
    IF ~IsPermutation(axes, ndim(t)) THEN Panic
    ELSE Ok(<<Tensor([k \in 1..ndim(t) |-> t.shape[axes[k] + 1]],
                     [k \in 1..ndim(t) |-> t.strides[axes[k] + 1]],
                     t.data)>>)

\* transpose, were the vector reread under the reversed shape
transpose_as_reshape(t) ==
    IF ndim(t) < 2 THEN Panic
    ELSE Ok(<<Tensor(Reverse(t.shape), default_strides(Reverse(t.shape)), t.data)>>)

transpose(t) ==
    IF ndim(t) < 2 THEN Panic
    ELSE permuted_axes(t, [k \in 1..ndim(t) |-> ndim(t) - k])

permute(t, axes) == permuted_axes(t, axes)

\* as_slice() is None unless the array is in standard layout
to_vec(t) == IF is_standard_layout(t) THEN t.data ELSE <<>>

\* PartialEq: same shape and same elements index by index
eq(t, u) == t.shape = u.shape /\ iter(t) = iter(u)

\* ----------------------------------------------------- views and to_owned
\* an ArrayView: a window (offset, shape, strides) on somebody's vector
View(shp, strides, off, data) ==
    [shape |-> shp, strides |-> strides, off |-> off, data |-> data]

view(t) == View(t.shape, t.strides, 0, t.data)

ViewAt(v, idx) == v.data[1 + v.off + Dot(idx, v.strides)]

ViewIter(v) ==
    [n \in 1..Product(v.shape) |-> ViewAt(v, Unravel(v.shape, n - 1))]

\* Dimension::_fastest_varying_stride_order: the axis at position p (from 1)
\* when the axes are sorted by stride, ties in axis order
AxisAtStrideRank(strides, p) ==
    CHOOSE i \in 1..Len(strides) :
        Cardinality({j \in 1..Len(strides) :
                        \/ strides[j] < strides[i]
                        \/ (strides[j] = strides[i] /\ j < i)}) = p - 1

RECURSIVE ContigFrom(_, _, _, _)
ContigFrom(shp, strides, p, cstride) ==
    IF p > Len(shp) THEN TRUE
    ELSE LET i == AxisAtStrideRank(strides, p)
         IN  IF shp[i] # 1 /\ strides[i] # cstride THEN FALSE
             ELSE ContigFrom(shp, strides, p + 1, cstride * shp[i])

\* dimension::is_contiguous (strides are never negative here)
is_contiguous(shp, strides) ==
    IF strides = default_strides(shp) THEN TRUE
    ELSE IF Len(shp) = 1 THEN FALSE
    ELSE ContigFrom(shp, strides, 1, 1)

\* to_owned, were a contiguous view to keep the whole vector it looks into
to_owned_whole_vector(v) ==
    IF is_contiguous(v.shape, v.strides)
    THEN Tensor(v.shape, v.strides, v.data)
    ELSE Tensor(v.shape, default_strides(v.shape), ViewIter(v))

\* ArrayBase::to_owned: a contiguous view is copied as it lies in memory and
\* keeps its strides; any other view is collected in logical order
to_owned(v) ==
    IF is_contiguous(v.shape, v.strides)
    THEN Tensor(v.shape, v.strides,
                SubSeq(v.data, v.off + 1, v.off + Product(v.shape)))
    ELSE Tensor(v.shape, default_strides(v.shape), ViewIter(v))

\* dimension::do_slice on one axis, for a range start..end with step 1
SliceEnd(r) == IF r[2] < r[1] THEN r[1] ELSE r[2]
SliceInBounds(extent, r) == r[1] <= extent /\ SliceEnd(r) <= extent
SliceLen(r) == SliceEnd(r) - r[1]

\* ArrayBase::slice with one SliceInfoElem per entry of ranges
slice_view(v, ranges) ==
    View([k \in 1..Len(ranges) |-> SliceLen(ranges[k])],
         [k \in 1..Len(ranges) |->
             IF SliceLen(ranges[k]) <= 1 THEN 0 ELSE v.strides[k]],
         v.off + SumSeq([k \in 1..Len(ranges) |->
             IF SliceLen(ranges[k]) = 0 THEN 0
             ELSE ranges[k][1] * v.strides[k]]),
         v.data)

\* slice, were a range reaching past its axis cut down to the extent
slice_clamped(t, ranges) ==
    IF Len(ranges) # ndim(t) THEN Panic
    ELSE LET Cut(x, k) == IF x > t.shape[k] THEN t.shape[k] ELSE x
         IN  Ok(<<to_owned(slice_view(view(t),
                     [k \in 1..ndim(t) |->
                         <<Cut(ranges[k][1], k), Cut(ranges[k][2], k)>>]))>>)

slice(t, ranges) ==
    IF Len(ranges) # ndim(t) THEN Panic
    ELSE IF \E k \in 1..ndim(t) : ~SliceInBounds(t.shape[k], ranges[k])
    THEN Panic
    ELSE Ok(<<to_owned(slice_view(view(t), ranges))>>)

\* s![0..index, ..] and s![index.., ..] describe exactly two axes
split_at(t, index) ==
    IF ~(ndim(t) > 0) THEN Panic
    ELSE IF ~(index <= t.shape[1]) THEN Panic
    ELSE IF ~(ndim(t) >= 2) THEN Panic
    ELSE IF ndim(t) # 2 THEN Panic
    ELSE Ok(<<to_owned(slice_view(view(t),
                                  <<<<0, index>>, <<0, t.shape[2]>>>>)),
              to_owned(slice_view(view(t),
                                  <<<<index, t.shape[1]>>, <<0, t.shape[2]>>>>))>>)

\* dimension::broadcast::upcast: the strides of `from` seen under shape `to`
CanUpcast(to, from) ==
    /\ Len(to) >= Len(from)
    /\ \A k \in 1..Len(from) :
          LET d == to[Len(to) - Len(from) + k]
          IN  d = from[k] \/ from[k] = 1

upcast(to, from, strides) ==
    [k \in 1..Len(to) |->
        IF k <= Len(to) - Len(from) THEN 0
        ELSE LET j == k - (Len(to) - Len(from))
             IN  IF to[k] = from[j] THEN strides[j] ELSE 0]

broadcast_view(v, to) == View(to, upcast(to, v.shape, v.strides), v.off, v.data)

\* padded_shape, were the 1s appended after the shape
padded_shape_trailing(t, target) ==
    [k \in 1..Len(target) |-> IF k <= ndim(t) THEN t.shape[k] ELSE 1]

\* padded_shape of Tensor::broadcast
padded_shape(t, target) ==
    [k \in 1..Len(target) |->
        IF k <= Len(target) - ndim(t) THEN 1
        ELSE t.shape[k - (Len(target) - ndim(t))]]

broadcast(t, target) ==
    IF Len(target) < ndim(t) THEN Panic
    ELSE IF \E k \in 1..Len(target) :
               LET self_dim == padded_shape(t, target)[k]
               IN  self_dim # target[k] /\ self_dim # 1
    THEN Panic
    ELSE IF ~CanUpcast(target, t.shape) THEN Panic
    ELSE Ok(<<to_owned(broadcast_view(view(t), target))>>)

\* the message of the panic of Tensor::broadcast.  A target of lower rank
\* than the receiver makes ndim_target - ndim_self underflow: with overflow
\* checks the subtraction panics, without them it wraps and vec![1; ..] of
\* the wrapped length panics in the allocator
broadcast_message(t, target, overflow_checks) ==
    IF Len(target) < ndim(t)
    THEN IF overflow_checks THEN "attempt to subtract with overflow"
         ELSE "capacity overflow"
    ELSE IF \E k \in 1..Len(target) :
               LET self_dim == padded_shape(t, target)[k]
               IN  self_dim # target[k] /\ self_dim # 1
    THEN "Cannot broadcast shape"
    ELSE "Broadcast failed"

\* ------------------------------------------------- Zip and result layouts
\* layout flags of a producer: "C" CORDER, "F" FORDER, "c" CPREFER, "f" FPREFER
array_layout(shp, strides) ==
    LET n == Len(shp)
    IN  IF is_layout_c(shp, strides)
        THEN IF n <= 1 \/ Cardinality({k \in 1..n : shp[k] > 1}) <= 1
             THEN {"C", "F", "c", "f"}
             ELSE {"C", "c"}
        ELSE IF n > 1 /\ is_layout_f(shp, strides) THEN {"F", "f"}
        ELSE IF n > 1
        THEN IF shp[1] > 1 /\ strides[1] = 1 THEN {"f"}
             ELSE IF shp[n] > 1 /\ strides[n] = 1 THEN {"c"}
             ELSE {}
        ELSE {}

Flag(l, f) == IF f \in l THEN 1 ELSE 0

tendency(l) == (Flag(l, "C") - Flag(l, "F")) + (Flag(l, "c") - Flag(l, "f"))

\* Zip::prefer_f for a Zip over the given layouts
prefer_f(layouts) ==
    LET all == {f \in {"C", "F", "c", "f"} :
                   \A k \in 1..Len(layouts) : f \in layouts[k]}
        tend == SumSeq([k \in 1..Len(layouts) |-> tendency(layouts[k])])
    IN  "C" \notin all /\ ("F" \in all \/ tend < 0)

\* an array of the given shape and logical elements, row- or column-major
FromLogical(shp, elems, f) ==
    IF f
    THEN LET st == fortran_strides(shp)
             rs == Reverse(shp)
         IN  Tensor(shp, st,
                 [m \in 1..Product(shp) |->
                     \* memory position m-1 holds the index whose reversed
                     \* form is the (m-1)-th row-major index of the reversed shape
                     LET idx == Reverse(Unravel(rs, m - 1))
                     IN  elems[1 + Dot(idx, default_strides(shp))]])
    ELSE Tensor(shp, default_strides(shp), elems)

\* dimension::broadcast::co_broadcast
CoShape(s1, s2) ==
    LET long == IF Len(s1) >= Len(s2) THEN s1 ELSE s2
        short == IF Len(s1) >= Len(s2) THEN s2 ELSE s1
        k == Len(long) - Len(short)
    IN  [i \in 1..Len(long) |->
            IF i <= k THEN long[i]
            ELSE IF long[i] = 1 THEN short[i - k] ELSE long[i]]

CoBroadcastable(s1, s2) ==
    LET long == IF Len(s1) >= Len(s2) THEN s1 ELSE s2
        short == IF Len(s1) >= Len(s2) THEN s2 ELSE s1
        k == Len(long) - Len(short)
    IN  \A i \in 1..Len(short) :
            long[i + k] = short[i] \/ long[i + k] = 1 \/ short[i] = 1

Plus(x, y) == x + y
Minus(x, y) == x - y
\* f32 division, defined here where the quotient is an integer
Quot(x, y) == IF x >= 0 THEN x \div y ELSE -((-x) \div y)

\* the element operation of the operator named; "mul" and "left" (the left
\* element as it is) serve the test that a division is exact
BinOp(op, x, y) ==
    CASE op = "add" -> Plus(x, y)
      [] op = "div" -> Quot(x, y)
      [] op = "mul" -> x * y
      [] op = "left" -> x

\* &a + &b and &a / &b of ndarray: equal shapes are zipped directly, other
\* shapes are co-broadcast first; op names the element operation
ZipWith(op, t, other) ==
    IF ~CoBroadcastable(t.shape, other.shape) THEN Panic
    ELSE LET shp == IF t.shape = other.shape THEN t.shape
                    ELSE CoShape(t.shape, other.shape)
             lhs == broadcast_view(view(t), shp)
             rhs == broadcast_view(view(other), shp)
             elems == [n \in 1..Product(shp) |->
                          BinOp(op, ViewAt(lhs, Unravel(shp, n - 1)),
                                ViewAt(rhs, Unravel(shp, n - 1)))]
         IN  Ok(<<FromLogical(shp, elems,
                     prefer_f(<<array_layout(shp, lhs.strides),
                                array_layout(shp, rhs.strides)>>))>>)

add(t, other) == ZipWith("add", t, other)

div(t, other) == ZipWith("div", t, other)

\* sub_assign, were equal shapes subtracted position by position of the
\* two vectors
sub_assign_by_position(t, rhs) ==
    IF t.shape # rhs.shape THEN Panic
    ELSE Ok(<<Tensor(t.shape, t.strides,
                     [m \in 1..Len(t.data) |-> t.data[m] - rhs.data[m]])>>)

\* ArrayBase::zip_mut_with: rhs is broadcast to the shape of self, which
\* keeps its shape and strides
sub_assign(t, rhs) ==
    IF t.shape # rhs.shape /\ ~CanUpcast(t.shape, rhs.shape) THEN Panic
    ELSE LET r == broadcast_view(view(rhs), t.shape)
             \* the index stored at memory position m of t, if any
             Idx(m) == {n \in 1..len(t) :
                           1 + Dot(Unravel(t.shape, n - 1), t.strides) = m}
         IN  Ok(<<Tensor(t.shape, t.strides,
                    [m \in 1..Len(t.data) |->
                        IF Idx(m) = {} THEN t.data[m]
                        ELSE LET n == CHOOSE n \in Idx(m) : TRUE
                             IN  Minus(t.data[m],
                                       ViewAt(r, Unravel(t.shape, n - 1)))])>>)

\* ------------------------------------------------------ gather and stack
RECURSIVE Concat(_)
Concat(ss) == IF ss = <<>> THEN <<>> ELSE Head(ss) \o Concat(Tail(ss))

\* Tensor::take: the row length is data.len() / shape[0]; rows are copied
\* out of as_slice(), which exists only in standard layout
take(t, indices) ==
    IF ndim(t) = 0 THEN Panic
    ELSE IF t.shape[1] = 0 THEN Panic
    ELSE LET stride == len(t) \div t.shape[1]
         IN  IF indices # <<>> /\ ~is_standard_layout(t) THEN Panic
             ELSE IF \E k \in 1..Len(indices) :
                         indices[k] * stride + stride > len(t)
             THEN Panic
             ELSE new(Concat([k \in 1..Len(indices) |->
                                 SubSeq(t.data, indices[k] * stride + 1,
                                        indices[k] * stride + stride)]),
                      [k \in 1..ndim(t) |->
                          IF k = 1 THEN Len(indices) ELSE t.shape[k]])

\* stack, were the vectors of the tensors joined as they are stored
stack_stored_order(tensors) ==
    IF tensors = <<>> THEN Err
    ELSE IF \E k \in 1..Len(tensors) : tensors[k].shape # tensors[1].shape
    THEN Err
    ELSE LET shp == <<Len(tensors)>> \o tensors[1].shape
         IN  Ok(<<Tensor(shp, default_strides(shp),
                         Concat([k \in 1..Len(tensors) |-> tensors[k].data]))>>)

\* Tensor::stack over ndarray::stack(Axis(0), ..)
stack(tensors) ==
    IF tensors = <<>> THEN Err
    ELSE IF \E k \in 1..Len(tensors) : tensors[k].shape # tensors[1].shape
    THEN Err
    ELSE LET shp == <<Len(tensors)>> \o tensors[1].shape
         IN  Ok(<<Tensor(shp, default_strides(shp),
                         Concat([k \in 1..Len(tensors) |-> iter(tensors[k])]))>>)

\* ---------------------------------------------------------------- matmul
\* dot_elem, were the two vectors read as if both were stored row by row
dot_elem_stored_order(t, other, i, j) ==
    SumSeq([p \in 1..t.shape[2] |->
               t.data[1 + i * t.shape[2] + (p - 1)]
                   * other.data[1 + (p - 1) * other.shape[2] + j]])

\* the element (i, j) of the product of two matrices
dot_elem(t, other, i, j) ==
    SumSeq([p \in 1..t.shape[2] |->
               At(t, <<i, p - 1>>) * At(other, <<p - 1, j>>)])

\* matmul, were the inner extents not compared and the shorter one used
matmul_shorter_inner(t, other) ==
    IF ndim(t) # 2 \/ ndim(other) # 2 THEN Panic
    ELSE LET m == t.shape[1]
             n == other.shape[2]
             k == IF t.shape[2] < other.shape[1] THEN t.shape[2]
                  ELSE other.shape[1]
         IN  Ok(<<Tensor(<<m, n>>, default_strides(<<m, n>>),
                    [e \in 1..(m * n) |->
                        SumSeq([p \in 1..k |->
                            At(t, <<(e - 1) \div n, p - 1>>)
                                * At(other, <<p - 1, (e - 1) % n>>)])])>>)

\* Tensor::matmul over ArrayBase::dot for two-dimensional arrays
matmul(t, other) ==
    IF ndim(t) < 2 \/ ndim(other) < 2 THEN Panic
    ELSE IF ndim(t) # 2 THEN Panic
    ELSE IF ndim(other) # 2 THEN Panic
    ELSE IF t.shape[2] # other.shape[1] THEN Panic
    ELSE LET m == t.shape[1]
             k == t.shape[2]
             n == other.shape[2]
             elems == [e \in 1..(m * n) |->
                          LET i == (e - 1) \div n
                              j == (e - 1) % n
                          IN  dot_elem(t, other, i, j)]
         IN  Ok(<<FromLogical(<<m, n>>, elems,
                              t.strides[1] = 1 /\ other.strides[1] = 1)>>)

\* Mul::mul
mul(t, rhs) == matmul(t, rhs)

\* ------------------------------------------------------------ reductions
RemoveAxis(s, axis) ==
    [k \in 1..(Len(s) - 1) |-> IF k <= axis THEN s[k] ELSE s[k + 1]]

InsertAt(idx, axis, i) ==
    [k \in 1..(Len(idx) + 1) |->
        IF k <= axis THEN idx[k] ELSE IF k = axis + 1 THEN i ELSE idx[k - 1]]

\* the lane of t along axis (0-based) at the index idx of the other axes
Lane(t, axis, idx) ==
    [i \in 1..t.shape[axis + 1] |-> At(t, InsertAt(idx, axis, i - 1))]

\* Dimension::min_stride_axis: the last axis among those of least stride
min_stride_axis(t) ==
    IF ndim(t) = 1 THEN 0
    ELSE (CHOOSE k \in 1..ndim(t) :
             /\ \A j \in 1..ndim(t) : t.strides[k] <= t.strides[j]
             /\ \A j \in (k + 1)..ndim(t) : t.strides[j] > t.strides[k]) - 1

\* ArrayBase::sum_axis
sum_axis(t, axis) ==
    IF axis >= ndim(t) THEN Panic
    ELSE LET shp == RemoveAxis(t.shape, axis)
             elems == [n \in 1..Product(shp) |->
                          SumSeq(Lane(t, axis, Unravel(shp, n - 1)))]
         IN  Ok(<<FromLogical(shp, elems,
                     /\ axis = min_stride_axis(t)
                     /\ prefer_f(<<array_layout(shp,
                                      RemoveAxis(t.strides, axis))>>))>>)

sum_along_axis(t, axis) == sum_axis(t, axis)

\* reduce_sum, were it to sum along axis 0 whatever axis is named
reduce_sum_first_axis(t, axis) == sum_axis(t, 0)

reduce_sum(t, axis) == sum_axis(t, axis)

\* ArrayBase::mean_axis: None for an axis of extent 0, else sum_axis / extent;
\* the owned sum is divided in place and keeps its layout
mean_axis(t, axis) ==
    IF axis >= ndim(t) THEN Panic
    ELSE IF t.shape[axis + 1] = 0 THEN Panic
    ELSE LET sum == sum_axis(t, axis).res[1]
         IN  Ok(<<Tensor(sum.shape, sum.strides,
                         [m \in 1..Len(sum.data) |->
                             Quot(sum.data[m], t.shape[axis + 1])])>>)

\* Iterator::max_by returns the last of several equally maximal elements
ArgMaxLast(lane) ==
    CHOOSE i \in 1..Len(lane) :
        /\ \A j \in 1..Len(lane) : lane[j] <= lane[i]
        /\ \A j \in (i + 1)..Len(lane) : lane[j] < lane[i]

\* argmax, were the last index of the axis returned for every lane
argmax_last_index(t, axis) ==
    IF axis >= ndim(t) THEN Panic
    ELSE LET shp == RemoveAxis(t.shape, axis)
         IN  IF t.shape[axis + 1] = 0 /\ Product(shp) > 0 THEN Panic
             ELSE Ok(<<Tensor(shp, default_strides(shp),
                              [n \in 1..Product(shp) |-> t.shape[axis + 1] - 1])>>)

\* Tensor::argmax over ArrayBase::map_axis: an axis of extent 0 maps the
\* closure over an empty lane (max_by gives None), an axis of extent 1 maps
\* the remaining view (keeping its strides when contiguous), a longer axis is
\* collected by a Zip over the lanes
argmax(t, axis) ==
    IF axis >= ndim(t) THEN Panic
    ELSE LET shp == RemoveAxis(t.shape, axis)
             st == RemoveAxis(t.strides, axis)
             elems == [n \in 1..Product(shp) |->
                          ArgMaxLast(Lane(t, axis, Unravel(shp, n - 1))) - 1]
         IN  IF t.shape[axis + 1] = 0
             THEN IF Product(shp) > 0 THEN Panic
                  ELSE Ok(<<Tensor(shp, default_strides(shp), <<>>)>>)
             ELSE IF t.shape[axis + 1] = 1
             THEN Ok(<<Tensor(shp,
                              IF is_contiguous(shp, st) THEN st
                              ELSE default_strides(shp),
                              [n \in 1..Product(shp) |-> 0])>>)
             ELSE Ok(<<FromLogical(shp, elems,
                                   prefer_f(<<array_layout(shp, st)>>))>>)

\* the closure handed to map by add_scalar and mul_scalar
MapElem(op, amount, x) ==
    IF op = "add_scalar" THEN x + amount ELSE x * amount

\* Tensor::map over ArrayBase::mapv: a contiguous array is mapped as it lies
\* in memory and keeps its strides; any other is collected in logical order
map(t, op, amount) ==
    IF is_contiguous(t.shape, t.strides)
    THEN Ok(<<Tensor(t.shape, t.strides,
                     [m \in 1..Len(t.data) |-> MapElem(op, amount, t.data[m])])>>)
    ELSE Ok(<<Tensor(t.shape, default_strides(t.shape),
                     [n \in 1..len(t) |-> MapElem(op, amount, iter(t)[n])])>>)

mul_scalar(t, amount) == map(t, "mul_scalar", amount)

add_scalar(t, amount) == map(t, "add_scalar", amount)

\* Tensor::add_noise: noise[m] is the sample added to the m-th stored value
add_noise(t, noise) ==
    Ok(<<Tensor(t.shape, t.strides, [m \in 1..Len(t.data) |-> t.data[m] + noise[m]])>>)

\* Tensor::max: Iterator::max_by over iter(), None unwrapped for no elements
max(t) ==
    IF len(t) = 0 THEN [outcome |-> "panic", res |-> <<>>, val |-> 0]
    ELSE [outcome |-> "ok", res |-> <<>>,
          val |-> CHOOSE x \in {iter(t)[n] : n \in 1..len(t)} :
                     \A n \in 1..len(t) : iter(t)[n] <= x]

\* mean, were the None of a tensor without elements unwrapped
mean_unwrapped(t) ==
    IF len(t) = 0 THEN [outcome |-> "panic", res |-> <<>>, val |-> 0]
    ELSE [outcome |-> "ok", res |-> <<>>,
          val |-> Quot(SumSeq(iter(t)), len(t))]

\* Tensor::mean: ArrayBase::mean is None for no elements, else sum / count
mean(t) ==
    IF len(t) = 0 THEN [outcome |-> "ok", res |-> <<>>, val |-> 0]
    ELSE [outcome |-> "ok", res |-> <<>>,
          val |-> Quot(SumSeq(iter(t)), len(t))]

\* ------------------------------------------------------------ input sets
Iota(n) == [i \in 1..n |-> i]

\* the buffer of n elements handed to Tensor::new: 1, 3, 2, 4, 5, 0 and
\* then 7, 8, ..
Sample(n) == [i \in 1..n |-> IF i <= 6 THEN <<1, 3, 2, 4, 5, 0>>[i] ELSE i]

\* every shape of rank <= MaxRank with extents 0..MaxExtent whose extents
\* other than 0 multiply to at most MaxElems
Shapes ==
    {s \in UNION {[1..r -> 0..MaxExtent] : r \in 0..MaxRank} :
        Product([k \in 1..Len(s) |-> IF s[k] = 0 THEN 1 ELSE s[k]]) <= MaxElems}

\* buffers handed to Tensor::new: lengths around the one the shape needs
BufferLens(shp) ==
    {n \in {Product(shp) - 1, Product(shp), Product(shp) + 1} : n >= 0}

\* axis orders handed to permute: the permutations of 0..rank-1, the order
\* that names axis 0 throughout, and the order of the single axis 0
AxesArgs(r) ==
    {p \in [1..r -> 0..(r - 1)] :
        IsPermutation(p, r) \/ \A k \in 1..r : p[k] = 0}
    \cup {<<0>>}

\* half-open ranges start..end handed to slice for an axis
Ranges == {r \in (0..(MaxExtent + 1)) \X (0..(MaxExtent + 1)) : r[1] <= r[2]}

\* one range per axis: a single axis narrowed, the others taken whole; the
\* same list with one range too many; and the list of no ranges
SliceArgs(t) ==
    LET full == [k \in 1..ndim(t) |-> <<0, t.shape[k]>>]
    IN  {[full EXCEPT ![k] = r] : k \in 1..ndim(t), r \in Ranges}
        \cup {full, full \o <<<<0, 1>>>>, <<>>}

\* index lists handed to take
IndexArgs == UNION {[1..n -> 0..MaxExtent] : n \in 0..2}

\* operands of the binary operations next to b: freshly built tensors whose
\* shape is the receiver's with one axis set to 1, a suffix of it, its
\* reverse, or itself
OperandShapes(shp) ==
    {[shp EXCEPT ![k] = 1] : k \in 1..Len(shp)}
    \cup {SubSeq(shp, k, Len(shp)) : k \in 1..(Len(shp) + 1)}
    \cup {Reverse(shp), shp}

Operands(t, u) ==
    {u} \cup {Tensor(sh, default_strides(sh), Iota(Product(sh))) :
                 sh \in OperandShapes(t.shape)}

\* the tensor lists handed to stack: up to MaxStack of a and b
StackArgs(t, u) == UNION {[1..n -> {t, u}] : n \in 0..MaxStack}

\* noise levels handed to add_noise
Levels == {-1, 0, 1}

\* Samples, were the interval closed at level
Samples_closed(level) == (0 - level)..level

\* the samples gen_range(-level..level) can draw among the modelled values
Samples(level) == (0 - level)..(level - 1)

\* the amounts handed to add_scalar and mul_scalar
Amounts == {2}

\* the samples of rng.gen::<f32>(), uniform in [0,1), among the modelled values
RandomSamples == {0}

\* ----------------------------------------------------------------- state
\* a: the tensor the operations are applied to
\* b: a second tensor, cloned from a when a was built
\* last: the call made last: its name, receiver, tensor arguments, other
\*       arguments, outcome, returned tensors, returned vector, returned
\*       number and, for broadcast, the message of its panic
VARIABLES a, b, last

vars == <<a, b, last>>

Call(op, recv, others, args, r) ==
    [op |-> op, recv |-> recv, others |-> others, args |-> args,
     outcome |-> r.outcome, res |-> r.res, vec |-> <<>>, val |-> 0,
     msg |-> ""]

\* Default::default
default == zeros(<<1, 1>>)

Init ==
    /\ a = default.res[1]
    /\ b = default.res[1]
    /\ last = Call("default", <<>>, <<>>, <<>>, default)

\* A constructor replaces a and b whatever they were, so a constructor call
\* made later leads where the same call leads from the initial state.
Unbuilt == last.op = "default"

\* Calls are made from the state a constructor or a binding has left.  A call
\* that returns a value or panics leaves a and b as they were, so whatever
\* follows it also follows the state it was made in; an in-place operation is
\* followed by no further call.
Settled == last.op \in {"default", "new", "zeros", "random", "let"} /\ last.outcome = "ok"

\* a constructor call; on success the new tensor becomes a and b its clone
Construct(op, args, r) ==
    /\ last' = Call(op, <<>>, <<>>, args, r)
    /\ IF r.outcome = "ok"
       THEN a' = r.res[1] /\ b' = r.res[1]
       ELSE UNCHANGED <<a, b>>

New ==
    /\ Unbuilt
    /\ \E shp \in Shapes : \E n \in BufferLens(shp) :
           Construct("new", <<Sample(n), shp>>, new(Sample(n), shp))

Zeros ==
    /\ Unbuilt
    /\ \E shp \in Shapes : Construct("zeros", <<shp>>, zeros(shp))

Random ==
    /\ Unbuilt
    /\ \E shp \in Shapes : \E data \in [1..Product(shp) -> RandomSamples] :
           Construct("random", <<shp>>, random(data, shp))

\* an operation that returns new tensors and leaves a and b alone
Apply(op, others, args, r) ==
    /\ last' = Call(op, <<a>>, others, args, r)
    /\ UNCHANGED <<a, b>>

Transpose ==
    /\ Settled
    /\ Apply("transpose", <<>>, <<>>, transpose(a))

Permute ==
    /\ Settled
    /\ \E axes \in AxesArgs(ndim(a)) : Apply("permute", <<>>, axes, permute(a, axes))

\* let a = a.transpose() or let a = a.permute(..): the tensor just returned
\* becomes the tensor the next calls are applied to
Let ==
    /\ last.op \in {"transpose", "permute"}
    /\ last.outcome = "ok"
    /\ a' = last.res[1]
    /\ last' = Call("let", <<>>, <<>>, <<>>, Ok(<<>>))
    /\ UNCHANGED b

Reshape ==
    /\ Settled
    /\ \E shp \in Shapes : Apply("reshape", <<>>, shp, reshape(a, shp))

Flatten ==
    /\ Settled
    /\ Apply("flatten", <<>>, <<>>, flatten(a))

ToVec ==
    /\ Settled
    /\ last' = [Call("to_vec", <<a>>, <<>>, <<>>, Ok(<<>>)) EXCEPT !.vec = to_vec(a)]
    /\ UNCHANGED <<a, b>>

Slice ==
    /\ Settled
    /\ \E ranges \in SliceArgs(a) : Apply("slice", <<>>, ranges, slice(a, ranges))

Broadcast ==
    /\ Settled
    /\ \E shp \in Shapes : \E overflow_checks \in BOOLEAN :
           /\ last' = [Call("broadcast", <<a>>, <<>>, shp, broadcast(a, shp))
                           EXCEPT !.msg =
                               IF broadcast(a, shp).outcome = "panic"
                               THEN broadcast_message(a, shp, overflow_checks)
                               ELSE ""]
           /\ UNCHANGED <<a, b>>

Take ==
    /\ Settled
    /\ \E indices \in IndexArgs : Apply("take", <<>>, indices, take(a, indices))

Stack ==
    /\ Settled
    /\ \E tensors \in StackArgs(a, b) : Apply("stack", tensors, <<>>, stack(tensors))

SplitAt ==
    /\ Settled
    /\ \E index \in 0..(MaxExtent + 1) : Apply("split_at", <<>>, <<index>>, split_at(a, index))

Matmul ==
    /\ Settled
    /\ \E other \in Operands(a, b) : Apply("matmul", <<other>>, <<>>, matmul(a, other))

Mul ==
    /\ Settled
    /\ \E rhs \in Operands(a, b) : Apply("mul", <<rhs>>, <<>>, mul(a, rhs))

Add ==
    /\ Settled
    /\ \E other \in Operands(a, b) : Apply("add", <<other>>, <<>>, add(a, other))

\* the quotients the model can represent: divisor nonzero, division exact
DivExact(t, other) ==
    /\ \A n \in 1..Len(other.data) : other.data[n] # 0
    /\ LET r == div(t, other)
       IN  r.outcome = "ok" =>
               eq(ZipWith("mul", r.res[1], other).res[1],
                  ZipWith("left", t, other).res[1])

Div ==
    /\ Settled
    /\ \E other \in Operands(a, b) :
           /\ DivExact(a, other)
           /\ Apply("div", <<other>>, <<>>, div(a, other))

SumAlongAxis ==
    /\ Settled
    /\ \E axis \in 0..MaxRank : Apply("sum_along_axis", <<>>, <<axis>>, sum_along_axis(a, axis))

ReduceSum ==
    /\ Settled
    /\ \E axis \in 0..MaxRank : Apply("reduce_sum", <<>>, <<axis>>, reduce_sum(a, axis))

\* the means the model can represent: every sum a multiple of the extent
MeanExact(t, axis) ==
    mean_axis(t, axis).outcome = "ok" =>
        \A n \in 1..Len(sum_axis(t, axis).res[1].data) :
            sum_axis(t, axis).res[1].data[n] % t.shape[axis + 1] = 0

MeanAxis ==
    /\ Settled
    /\ \E axis \in 0..MaxRank :
           /\ MeanExact(a, axis)
           /\ Apply("mean_axis", <<>>, <<axis>>, mean_axis(a, axis))

Argmax ==
    /\ Settled
    /\ \E axis \in 0..MaxRank : Apply("argmax", <<>>, <<axis>>, argmax(a, axis))

MulScalar ==
    /\ Settled
    /\ \E amount \in Amounts :
           Apply("mul_scalar", <<>>, <<amount>>, mul_scalar(a, amount))

AddScalar ==
    /\ Settled
    /\ \E amount \in Amounts :
           Apply("add_scalar", <<>>, <<amount>>, add_scalar(a, amount))

\* an operation that returns a number and leaves a and b alone
ApplyScalar(op, r) ==
    /\ last' = [Call(op, <<a>>, <<>>, <<>>, r) EXCEPT !.val = r.val]
    /\ UNCHANGED <<a, b>>

Max ==
    /\ Settled
    /\ ApplyScalar("max", max(a))

\* the means the model can represent: the sum a multiple of the count
MeanWholeExact(t) == len(t) > 0 => SumSeq(iter(t)) % len(t) = 0

Mean ==
    /\ Settled
    /\ MeanWholeExact(a)
    /\ ApplyScalar("mean", mean(a))

\* Mutate, were a and b to look into one vector, as they would had clone
\* and permuted_axes not copied it
Mutate_shared_vector(op, others, args, r) ==
    /\ last' = Call(op, <<a>>, others, args, r)
    /\ a' = IF r.outcome = "ok" THEN r.res[1] ELSE a
    /\ b' = IF r.outcome = "ok" THEN [b EXCEPT !.data = r.res[1].data] ELSE b

\* an in-place operation on a (res holds a as written); on a panic nothing
\* has been written
Mutate(op, others, args, r) ==
    /\ last' = Call(op, <<a>>, others, args, r)
    /\ a' = IF r.outcome = "ok" THEN r.res[1] ELSE a
    /\ UNCHANGED b

SubAssign ==
    /\ Settled
    /\ \E rhs \in Operands(a, b) : Mutate("sub_assign", <<rhs>>, <<>>, sub_assign(a, rhs))

AddNoise ==
    /\ Settled
    /\ \E level \in Levels :
           IF len(a) > 0 /\ level <= 0
           THEN Mutate("add_noise", <<>>, <<level>>, Panic)
           ELSE \E noise \in [1..Len(a.data) -> Samples(level)] :
                    Mutate("add_noise", <<>>, <<level>>, add_noise(a, noise))

Next ==
    \/ New \/ Zeros \/ Random
    \/ Transpose \/ Permute \/ Let
    \/ Reshape \/ Flatten \/ ToVec
    \/ Slice \/ Broadcast \/ Take \/ Stack \/ SplitAt
    \/ Matmul \/ Mul \/ Add \/ Div \/ SubAssign \/ AddNoise
    \/ SumAlongAxis \/ ReduceSum \/ MeanAxis \/ Argmax
    \/ Max \/ Mean \/ MulScalar \/ AddScalar

Spec == Init /\ [][Next]_vars

\* ---------------------------------------------------------------- claims
\* the tensors a state holds
Held == {a, b} \cup {last.res[k] : k \in 1..Len(last.res)}

Recv == last.recv[1]

\* the indices of a shape, in row-major order
Indices(shp) == {Unravel(shp, n - 1) : n \in 1..Product(shp)}

\* C1: every tensor held after any sequence of operations stores exactly as
\* many elements as the product of the extents of its shape.
C1_StoredEqualsProduct ==
    \A t \in Held :
        /\ Len(t.data) = Product(t.shape)
        /\ Len(t.strides) = Len(t.shape)

\* a slice of a tensor that is not in standard layout has been returned
C1_Witness ==
    /\ last.op = "slice" /\ last.outcome = "ok"
    /\ ~is_standard_layout(Recv)
    /\ len(last.res[1]) > 1
    /\ len(last.res[1]) < len(Recv)

\* C2: new(buffer, shape) returns a tensor exactly when the buffer length is
\* the product of the shape's extents and panics otherwise, returning nothing;
\* the tensor returned has the given shape and the buffer's elements in
\* row-major order.
C2_NewIffLengthMatches ==
    last.op = "new" =>
        LET buffer == last.args[1]
            shp == last.args[2]
        IN  /\ (last.outcome = "ok") <=> (Len(buffer) = Product(shp))
            /\ last.outcome = "ok" =>
                   /\ Len(last.res) = 1
                   /\ last.res[1].shape = shp
                   /\ iter(last.res[1]) = buffer
                   /\ to_vec(last.res[1]) = buffer
                   /\ a = last.res[1]
            /\ last.outcome # "ok" =>
                   /\ last.outcome = "panic"
                   /\ last.res = <<>>
                   /\ a = default.res[1]

\* new has built a tensor of two axes and at least four elements
C2_Witness ==
    /\ last.op = "new" /\ last.outcome = "ok"
    /\ Len(last.args[2]) = 2
    /\ Len(last.args[1]) >= 4
    /\ last.args[1] # <<>> /\ last.res[1].shape = last.args[2]

\* C3: add, div and sub_assign panic, returning and writing nothing, whenever
\* the shapes of the two operands differ.
C3_NoImplicitBroadcast ==
    (/\ last.op \in {"add", "div", "sub_assign"}
     /\ Recv.shape # last.others[1].shape)
    => /\ last.outcome = "panic"
       /\ last.res = <<>>
       /\ a = Recv

\* C4: a.sub_assign(b) for a and b of one shape keeps the shape of a, leaves
\* at every index the value a held there less the value b holds there, and
\* writes to no other tensor.
C4_SubAssignElementwise ==
    [][(/\ last'.op = "sub_assign"
        /\ last'.others[1].shape = a.shape)
       => /\ last'.outcome = "ok"
          /\ last'.recv = <<a>>
          /\ a'.shape = a.shape
          /\ \A idx \in Indices(a.shape) :
                 At(a', idx) = At(a, idx) - At(last'.others[1], idx)
          /\ b' = b]_vars

\* sub_assign has changed a tensor that is not in standard layout
C4_Witness ==
    /\ last.op = "sub_assign" /\ last.outcome = "ok"
    /\ last.others[1].shape = Recv.shape
    /\ ~is_standard_layout(Recv)
    /\ is_standard_layout(last.others[1])
    /\ a # Recv

\* C5: to_vec() returns all elements of the tensor in row-major order of its
\* shape, for every tensor, those returned by transpose and permute included.
C5_ToVecRowMajor ==
    last.op = "to_vec" =>
        /\ last.vec = iter(Recv)
        /\ Len(last.vec) = Product(Recv.shape)

\* C6: reshape(new_shape) panics exactly when the product of new_shape
\* differs from the element count and otherwise returns a tensor of shape
\* new_shape; flatten() always returns a tensor of one axis whose extent is
\* the element count.
C6_ReshapeFailsIffProductDiffers ==
    /\ last.op = "reshape" =>
           /\ (last.outcome = "panic") <=> (Product(last.args) # len(Recv))
           /\ last.outcome # "panic" =>
                  /\ last.outcome = "ok"
                  /\ last.res[1].shape = last.args
    /\ last.op = "flatten" =>
           /\ last.outcome = "ok"
           /\ last.res[1].shape = <<len(Recv)>>

\* C7: for a tensor t of shape S and a shape A of the same product,
\* t.reshape(A).to_vec() = t.to_vec() = t.flatten().to_vec(), and
\* t.reshape(A).reshape(S) == t.
C7_ReshapeKeepsRowMajorOrder ==
    (last.op = "reshape" /\ Product(last.args) = len(Recv)) =>
        /\ last.outcome = "ok"
        /\ to_vec(last.res[1]) = to_vec(Recv)
        /\ flatten(Recv).outcome = "ok"
        /\ to_vec(flatten(Recv).res[1]) = to_vec(Recv)
        /\ to_vec(Recv) = iter(Recv)
        /\ reshape(last.res[1], Recv.shape).outcome = "ok"
        /\ eq(reshape(last.res[1], Recv.shape).res[1], Recv)

\* C8: transpose() panics when the rank is below 2 and otherwise returns a
\* tensor whose shape is the receiver's reversed and whose element at the
\* reversed index is the receiver's element at the index; a tensor of rank 2
\* transposed twice is == to the original.
C8_TransposeReversesAxes ==
    last.op = "transpose" =>
        /\ (last.outcome = "panic") <=> (ndim(Recv) < 2)
        /\ last.outcome # "panic" =>
               /\ last.outcome = "ok"
               /\ last.res[1].shape = Reverse(Recv.shape)
               /\ \A idx \in Indices(Recv.shape) :
                      At(last.res[1], Reverse(idx)) = At(Recv, idx)
               /\ ndim(Recv) = 2 =>
                      /\ transpose(last.res[1]).outcome = "ok"
                      /\ eq(transpose(last.res[1]).res[1], Recv)

\* a tensor that is itself a transpose, of two unequal extents, has been
\* transposed
C8_Witness ==
    /\ last.op = "transpose" /\ last.outcome = "ok"
    /\ ndim(Recv) = 2
    /\ Recv.shape[1] > Recv.shape[2] /\ Recv.shape[2] > 1
    /\ ~is_standard_layout(Recv)
    /\ last.res[1] = b

\* split_at(1) applied n times, each time to what the split before left
\* over, returns first parts that hold the elements of the tensors stacked
RECURSIVE SplitsRecover(_, _, _)
SplitsRecover(rest, tensors, k) ==
    IF k > Len(tensors) THEN TRUE
    ELSE LET r == split_at(rest, 1)
         IN  /\ r.outcome = "ok"
             /\ iter(r.res[1]) = iter(tensors[k])
             /\ SplitsRecover(r.res[2], tensors, k + 1)

\* C9: for N >= 1 tensors of one shape, of any rank, stacking them and
\* applying split_at(1) repeatedly to the remaining part gives, in order, N
\* first parts holding the elements of the tensors stacked, every split_at
\* succeeding.
C9_StackThenSplitRecovers ==
    (last.op = "stack" /\ last.outcome = "ok") =>
        SplitsRecover(last.res[1], last.others, 1)

C11_SplitAtAnyRankFromTwo ==
    last.op = "split_at" =>
        LET index == last.args[1]
            fits == ndim(Recv) >= 2 /\ index <= Recv.shape[1]
        IN  /\ (last.outcome = "ok") <=> fits
            /\ ~fits => last.outcome = "panic" /\ last.res = <<>>
            /\ last.outcome = "ok" =>
                   /\ Len(last.res) = 2
                   /\ last.res[1].shape = <<index>> \o Tail(Recv.shape)
                   /\ last.res[2].shape =
                          <<Recv.shape[1] - index>> \o Tail(Recv.shape)
                   /\ \A idx \in Indices(last.res[1].shape) :
                          At(last.res[1], idx) = At(Recv, idx)
                   /\ \A idx \in Indices(last.res[2].shape) :
                          At(last.res[2], idx) =
                              At(Recv, <<idx[1] + index>> \o Tail(idx))

Identity2 == Tensor(<<2, 2>>, <<2, 1>>, <<1, 0, 0, 1>>)

\* C13: for matrices A (m x k) and B (k x n), transposed ones included,
\* A.matmul(B)[i][j] is the sum over p of A[i][p] * B[p][j]; for every
\* 2 x 2 matrix A and the 2 x 2 identity I, A.matmul(I) == A and
\* I.matmul(A) == A.
C13_MatmulIsMatrixProduct ==
    (/\ last.op = "matmul"
     /\ ndim(Recv) = 2 /\ ndim(last.others[1]) = 2
     /\ Recv.shape[2] = last.others[1].shape[1])
    => LET other == last.others[1]
       IN  /\ last.outcome = "ok"
           /\ \A i \in 0..(Recv.shape[1] - 1) :
              \A j \in 0..(other.shape[2] - 1) :
                  At(last.res[1], <<i, j>>) =
                      SumSeq([p \in 1..Recv.shape[2] |->
                                 At(Recv, <<i, p - 1>>) * At(other, <<p - 1, j>>)])
           /\ Recv.shape = <<2, 2>> =>
                  /\ matmul(Recv, Identity2).outcome = "ok"
                  /\ eq(matmul(Recv, Identity2).res[1], Recv)
                  /\ matmul(Identity2, Recv).outcome = "ok"
                  /\ eq(matmul(Identity2, Recv).res[1], Recv)

\* a transposed matrix of three rows and two columns has been multiplied by
\* a matrix of two rows and three columns
C13_Witness ==
    /\ last.op = "matmul" /\ last.outcome = "ok"
    /\ Recv.shape = <<3, 2>> /\ ~is_standard_layout(Recv)
    /\ last.others[1].shape = <<2, 3>>
    /\ At(last.res[1], <<2, 2>>) > 0

\* the result of argmax holds, for every index of the other axes, an index
\* along axis at which the receiver is at least what it is anywhere along it
ArgmaxPointsAtMaximum ==
    LET axis == last.args[1]
        shp == RemoveAxis(Recv.shape, axis)
    IN  /\ last.outcome = "ok"
        /\ last.res[1].shape = shp
        /\ \A idx \in Indices(shp) :
               LET r == At(last.res[1], idx)
               IN  /\ r \in 0..(Recv.shape[axis + 1] - 1)
                   /\ \A i \in 0..(Recv.shape[axis + 1] - 1) :
                          At(Recv, InsertAt(idx, axis, r))
                              >= At(Recv, InsertAt(idx, axis, i))

\* C14 (as stated): argmax(axis) panics when axis >= rank; otherwise the
\* result has the receiver's shape with that axis removed and holds, for
\* every index of the other axes, an index along axis of a greatest value.
C14_ArgmaxWheneverAxisInRank ==
    last.op = "argmax" =>
        IF last.args[1] >= ndim(Recv) THEN last.outcome = "panic"
        ELSE ArgmaxPointsAtMaximum

\* C14 (amended): argmax(axis) panics when axis >= rank, and also when the
\* axis has extent 0 while every other extent is above 0 (there are lanes,
\* and none has a greatest value); otherwise the result has the receiver's
\* shape with that axis removed and holds, for every index of the other
\* axes, an index along axis of a greatest value.
C14_ArgmaxIndexOfMaximum ==
    last.op = "argmax" =>
        LET axis == last.args[1]
        IN  IF axis >= ndim(Recv) THEN last.outcome = "panic"
            ELSE IF /\ Recv.shape[axis + 1] = 0
                    /\ Product(RemoveAxis(Recv.shape, axis)) > 0
            THEN last.outcome = "panic" /\ last.res = <<>>
            ELSE ArgmaxPointsAtMaximum

\* argmax along axis 1 of the rows [1,3,2] and [4,5,0] has returned [1,1]
C14_Witness ==
    /\ last.op = "argmax" /\ last.outcome = "ok"
    /\ last.args = <<1>>
    /\ iter(Recv) = <<1, 3, 2, 4, 5, 0>> /\ Recv.shape = <<2, 3>>
    /\ iter(last.res[1]) = <<1, 1>>

\* C15: where several elements along the axis are equally the greatest,
\* argmax returns the lowest index among them.
C15_ArgmaxFirstOfTies ==
    (last.op = "argmax" /\ last.outcome = "ok") =>
        LET axis == last.args[1]
        IN  \A idx \in Indices(last.res[1].shape) :
            \A i \in 0..(Recv.shape[axis + 1] - 1) :
                i < At(last.res[1], idx) =>
                    At(Recv, InsertAt(idx, axis, i))
                        < At(Recv, InsertAt(idx, axis, At(last.res[1], idx)))

\* C16: broadcast(target), for a target of at least the receiver's rank,
\* succeeds exactly when every extent of the receiver, aligned with the
\* trailing axes of the target, equals the target's extent or is 1, and
\* panics otherwise; the result has the target shape and holds at every
\* index the receiver's element at the index without the leading axes added
\* and with 0 on the stretched axes.
C16_BroadcastStretchesOnes ==
    (last.op = "broadcast" /\ Len(last.args) >= ndim(Recv)) =>
        LET target == last.args
            pad == Len(target) - ndim(Recv)
            fits == \A k \in 1..ndim(Recv) :
                        Recv.shape[k] = target[pad + k] \/ Recv.shape[k] = 1
        IN  /\ (last.outcome = "ok") <=> fits
            /\ ~fits => last.outcome = "panic" /\ last.res = <<>>
            /\ last.outcome = "ok" =>
                   /\ last.res[1].shape = target
                   /\ \A idx \in Indices(target) :
                          At(last.res[1], idx) =
                              At(Recv, [k \in 1..ndim(Recv) |->
                                  IF Recv.shape[k] = target[pad + k]
                                  THEN idx[pad + k] ELSE 0])

\* the row [1,3,2] of a tensor of shape (1,3) has been repeated to shape (2,3)
C16_Witness ==
    /\ last.op = "broadcast" /\ last.outcome = "ok"
    /\ Recv.shape = <<1, 3>> /\ last.args = <<2, 3>>
    /\ iter(last.res[1]) = <<1, 3, 2, 1, 3, 2>>

\* C17: mean() of a tensor without elements returns 0 and does not panic,
\* max() of such a tensor panics; mean() of a tensor with elements is their
\* sum divided by their count.
C17_MeanOfNothingIsZero ==
    /\ last.op = "mean" =>
           /\ last.outcome = "ok"
           /\ IF len(Recv) = 0 THEN last.val = 0
              ELSE last.val * len(Recv) = SumSeq(iter(Recv))
    /\ (last.op = "max" /\ len(Recv) = 0) => last.outcome = "panic"

\* mean() has been taken of a tensor of two axes, one of them of extent 0
C17_Witness ==
    /\ last.op = "mean" /\ last.outcome = "ok"
    /\ ndim(Recv) = 2 /\ len(Recv) = 0
    /\ Recv.shape[1] > 1
    /\ last.val = 0

\* the sum of the receiver's elements along axis at the index idx of the
\* other axes
SumAlong(axis, idx) ==
    SumSeq([i \in 1..Recv.shape[axis + 1] |->
               At(Recv, InsertAt(idx, axis, i - 1))])

\* C18: sum_along_axis(axis) and reduce_sum(axis) both panic (axis >= rank)
\* or return equal tensors, of the receiver's shape without that axis, each
\* element the sum of the receiver's elements along the axis; mean_axis(axis)
\* on an extent other than 0 returns that sum divided by the extent, and
\* panics when axis >= rank.
C18_SumAlongAxisIsReduceSum ==
    /\ last.op \in {"sum_along_axis", "reduce_sum"} =>
           LET axis == last.args[1]
               s == sum_along_axis(Recv, axis)
               r == reduce_sum(Recv, axis)
           IN  /\ s.outcome = r.outcome
               /\ last.outcome = s.outcome /\ last.res = s.res
               /\ last.outcome = r.outcome /\ last.res = r.res
               /\ (last.outcome = "panic") <=> (axis >= ndim(Recv))
               /\ last.outcome # "panic" =>
                      /\ last.outcome = "ok"
                      /\ eq(s.res[1], r.res[1])
                      /\ last.res[1].shape = RemoveAxis(Recv.shape, axis)
                      /\ \A idx \in Indices(last.res[1].shape) :
                             At(last.res[1], idx) = SumAlong(axis, idx)
    /\ last.op = "mean_axis" =>
           LET axis == last.args[1]
           IN  /\ axis >= ndim(Recv) => last.outcome = "panic"
               /\ (axis < ndim(Recv) /\ Recv.shape[axis + 1] # 0) =>
                      /\ last.outcome = "ok"
                      /\ last.res[1].shape = RemoveAxis(Recv.shape, axis)
                      /\ \A idx \in Indices(last.res[1].shape) :
                             At(last.res[1], idx) * Recv.shape[axis + 1]
                                 = SumAlong(axis, idx)

\* reduce_sum(1) has summed the rows of a transposed tensor of three rows
C18_Witness ==
    /\ last.op = "reduce_sum" /\ last.outcome = "ok"
    /\ last.args = <<1>>
    /\ Recv.shape = <<3, 2>> /\ ~is_standard_layout(Recv)
    /\ iter(last.res[1]) = <<5, 8, 2>>

\* C19: slice(ranges) with one half-open range per axis, each within the
\* extent of its axis, returns a tensor whose shape is the lengths of the
\* ranges and whose element at an index is the receiver's at that index
\* moved by the starts of the ranges; it panics when the number of ranges
\* differs from the rank or a range ends past the extent of its axis.
C19_SliceCopiesTheRegion ==
    last.op = "slice" =>
        LET ranges == last.args
            within == /\ Len(ranges) = ndim(Recv)
                      /\ \A k \in 1..ndim(Recv) :
                             /\ ranges[k][1] <= ranges[k][2]
                             /\ ranges[k][2] <= Recv.shape[k]
            beyond == \/ Len(ranges) # ndim(Recv)
                      \/ \E k \in 1..ndim(Recv) : ranges[k][2] > Recv.shape[k]
        IN  /\ within =>
                /\ last.outcome = "ok"
                /\ last.res[1].shape =
                       [k \in 1..ndim(Recv) |-> ranges[k][2] - ranges[k][1]]
                /\ \A idx \in Indices(last.res[1].shape) :
                       At(last.res[1], idx) =
                           At(Recv, [k \in 1..ndim(Recv) |->
                                        ranges[k][1] + idx[k]])
            /\ beyond => last.outcome = "panic" /\ last.res = <<>>

\* slice has copied, from a tensor that is not in standard layout, a region
\* of several elements that does not start at the first index
C19_Witness ==
    /\ last.op = "slice" /\ last.outcome = "ok"
    /\ ~is_standard_layout(Recv)
    /\ \E k \in 1..Len(last.args) : last.args[k][1] > 0
    /\ len(last.res[1]) > 1

\* C20: for every tensor of rank at least 1, those returned by transpose
\* and permute included, and every sequence of indices within axis 0,
\* take(indices) returns a tensor whose extent of axis 0 is the number of
\* indices, whose other extents are the receiver's, and whose k-th row is
\* the receiver's row indices[k].
C20_TakeGathersRows ==
    (/\ last.op = "take"
     /\ ndim(Recv) >= 1
     /\ \A k \in 1..Len(last.args) : last.args[k] < Recv.shape[1])
    => /\ last.outcome = "ok"
       /\ last.res[1].shape = <<Len(last.args)>> \o Tail(Recv.shape)
       /\ \A k \in 1..Len(last.args) :
          \A idx \in Indices(Tail(Recv.shape)) :
              At(last.res[1], <<k - 1>> \o idx)
                  = At(Recv, <<last.args[k]>> \o idx)

\* the operations that write to their receiver
InPlace == {"sub_assign", "add_noise"}

\* the steps that bind a or b to a tensor just built or returned
Binding == {"new", "zeros", "random", "let"}

C22_TakeRejectsIndexPastAxis ==
    (/\ last.op = "take"
     /\ ndim(Recv) >= 1
     /\ \/ \E k \in 1..Len(last.args) : last.args[k] >= Recv.shape[1]
        \/ Recv.shape[1] = 0)
    => last.outcome = "panic" /\ last.res = <<>>

\* C23: broadcast(target) with a target of lower rank than the receiver
\* panics and returns no tensor, and the panic is the one that names the two
\* shapes, as for a pair of extents that do not fit, not an underflow of the
\* difference of the ranks.
C23_LowerRankTargetNamesShapes ==
    (last.op = "broadcast" /\ Len(last.args) < ndim(Recv)) =>
        /\ last.outcome = "panic"
        /\ last.res = <<>>
        /\ last.msg = "Cannot broadcast shape"

\* C24: add_noise(level) with level > 0 keeps the shape and changes every
\* element by an amount d with -level <= d < level; with a level of 0 or
\* below it panics, the tensor left as it was, unless the tensor has no
\* elements, when it returns with the tensor as it was.
C24_AddNoiseWithinLevel ==
    last.op = "add_noise" =>
        LET level == last.args[1]
        IN  /\ level > 0 =>
                /\ last.outcome = "ok"
                /\ a.shape = Recv.shape
                /\ \A idx \in Indices(Recv.shape) :
                       /\ At(a, idx) - At(Recv, idx) >= 0 - level
                       /\ At(a, idx) - At(Recv, idx) < level
            /\ (level <= 0 /\ len(Recv) > 0) =>
                /\ last.outcome = "panic"
                /\ a = Recv
            /\ (level <= 0 /\ len(Recv) = 0) =>
                /\ last.outcome = "ok"
                /\ a = Recv

\* add_noise has changed two elements of a tensor that is not in standard
\* layout by different amounts
C24_Witness ==
    /\ last.op = "add_noise" /\ last.outcome = "ok"
    /\ last.args[1] > 0
    /\ ~is_standard_layout(Recv)
    /\ \E i, j \in Indices(Recv.shape) :
           At(a, i) - At(Recv, i) # At(a, j) - At(Recv, j)

====
